---- MODULE Spec2Model ----
(***************************************************************************)
(* A model of claude-gate's models endpoint (internal/proxy/               *)
(* models_handler.go) and of its confirmation prompts (internal/ui/        *)
(* components/confirm.go).                                                 *)
(*                                                                         *)
(* Four specifications share the variables below:                          *)
(*   SpecServe    ModelsHandler.ServeHTTP, one statement per step          *)
(*   SpecFetch    ModelsHandler.fetchModelsFromAnthropic                   *)
(*   SpecConfirm  ConfirmModel / ConfirmDefaultModel under the event loop  *)
(*   SpecScan     Confirm / ConfirmWithDefault without a terminal          *)
(***************************************************************************)
EXTENDS Integers, Sequences, FiniteSets, TLC

VARIABLES
    \* ---- the clock (time.Now().Unix(), as an offset in seconds)
    now,
    \* ---- ModelsHandler fields and what stands behind them
    tokenEnv,      \* what h.tokenProvider.GetAccessToken() would return
    upstreamEnv,   \* what the upstream would answer to h.httpClient.Do
    upstreamURL,   \* h.upstreamURL
    tokenCalls,    \* GetAccessToken calls made so far, with what each returned
    upstreamReqs,  \* requests handed to h.httpClient.Do so far
    \* ---- ServeHTTP
    pc,            \* position in ServeHTTP
    r,             \* the *http.Request
    w,             \* the http.ResponseWriter
    models,        \* the local variable `models`
    prevModels,    \* the listing encoded by the previous request (history)
    \* ---- fetchModelsFromAnthropic
    fpc,           \* position in fetchModelsFromAnthropic
    accessToken,   \* local accessToken
    req,           \* local req
    resp,          \* local resp
    fetched,       \* the (value, error) pair it returned
    \* ---- the confirmation prompt under tea.Program
    phase,         \* "new", "running", "quitting", "done"
    m,             \* the model (ConfirmModel, or ConfirmDefaultModel)
    before,        \* the model the last Update received (history)
    lastMsg,       \* the message the last Update received (history)
    lastCmd,       \* the command the last Update returned
    answer,        \* what Confirm / ConfirmWithDefault returned
    \* ---- the prompt without a terminal
    stdin,         \* the characters waiting on standard input
    call,          \* the call made: function, question, defaultYes
    ret            \* what the call returned

clockVars   == <<now>>
envVars     == <<tokenEnv, upstreamEnv, upstreamURL>>
callVars    == <<tokenCalls, upstreamReqs>>
serveVars   == <<pc, r, w, models, prevModels>>
fetchVars   == <<fpc, accessToken, req, resp, fetched>>
confirmVars == <<phase, m, before, lastMsg, lastCmd, answer>>
scanVars    == <<stdin, call, ret>>
vars == <<clockVars, envVars, callVars, serveVars, fetchVars, confirmVars, scanVars>>

(***************************************************************************)
(* Bounds                                                                  *)
(***************************************************************************)
\* the clock advances at most this many seconds in a behaviour
MaxTime == 2

(***************************************************************************)
(* net/http: headers, requests, the response writer                        *)
(***************************************************************************)
\* http.Header is map[string][]string
EmptyHeader == <<>>

\* Header.Get: the first value of the key, "" when there is none
HeaderGet(h, k) == IF k \in DOMAIN h /\ Len(h[k]) > 0 THEN h[k][1] ELSE ""

\* Header.Set: the key holds exactly the one value
HeaderSet(h, k, v) == (k :> <<v>>) @@ h

NoRequest == [Method |-> "", Header |-> EmptyHeader]

\* the requests the handler is tried on: any method, Origin absent, empty or set
Methods == {"GET", "POST", "OPTIONS"}
RequestHeaders ==
    { ("Accept" :> <<"*/*">>),
      ("Accept" :> <<"*/*">>) @@ ("Origin" :> <<"">>),
      ("Accept" :> <<"*/*">>) @@ ("Origin" :> <<"https://app.example">>),
      ("Accept" :> <<"*/*">>) @@ ("Origin" :> <<"http://localhost:3000">>) }
Requests == [Method : Methods, Header : RequestHeaders]

\* a fresh response: nothing set, nothing sent
NewResponse ==
    [header |-> EmptyHeader, wroteHeader |-> FALSE, status |-> 0,
     sent |-> EmptyHeader, body |-> <<>>]

\* ResponseWriter.WriteHeader: the first call fixes the status and sends the
\* header map as it is at that moment; later calls change nothing
WriteHeader(rw, code) ==
    IF rw.wroteHeader THEN rw
    ELSE [rw EXCEPT !.wroteHeader = TRUE, !.status = code, !.sent = rw.header]

\* a 1xx, 204 or 304 response carries no body
bodyAllowed(status) == ~(status \in 100..199 \/ status = 204 \/ status = 304)

\* ResponseWriter.Write: an implicit WriteHeader(200) when none was made, then
\* the bytes, unless the status allows no body
Write(rw, bytes) ==
    LET rw1 == WriteHeader(rw, 200)
    IN  IF bodyAllowed(rw1.status) THEN [rw1 EXCEPT !.body = Append(@, bytes)]
        ELSE rw1

\* json.NewEncoder(w).Encode(v): one Write of the JSON text of v and a newline.
\* The text is kept as the value it denotes.
Encode(rw, v) == Write(rw, [json |-> v, newline |-> TRUE])

(***************************************************************************)
(* What stands behind the handler's fields                                 *)
(***************************************************************************)
\* Go's nil inside a map[string]interface{}, and a nil map
nil == [nil |-> TRUE]

\* TokenProvider.GetAccessToken returns (string, error); err = "" is a nil error
TokenResults ==
    { [token |-> "sk-ant-oat01-A", err |-> ""],
      [token |-> "sk-ant-oat01-B", err |-> ""],
      [token |-> "", err |-> ""],
      [token |-> "", err |-> "no token available"] }

\* h.upstreamURL; http.NewRequest fails on a URL that does not parse
UpstreamURLs == {"https://api.anthropic.com", "://missing-scheme"}
URLParses(u) == u # "://missing-scheme/v1/models"

\* JSON values as json.Unmarshal into interface{} yields them
\* (a record with one field, named after the Go type of the value)
JString(s) == [string |-> s]
JNumber(n) == [float64 |-> n]
JArray(a)  == [slice |-> a]
JObject(o) == [map |-> o]
IsJString(v) == DOMAIN v = {"string"}
IsJArray(v)  == DOMAIN v = {"slice"}
IsJObject(v) == DOMAIN v = {"map"}

\* the documents an upstream may answer with
UpstreamDocs ==
    { ("error" :> JString("OAuth authentication is currently not supported.")),
      ("data" :> JString("none")),
      ("data" :> JArray(<<>>)),
      ("data" :> JArray(<< JObject(("id" :> JString("claude-opus-4-20250514"))),
                           JString("stray"),
                           JObject(("id" :> JNumber(7))),
                           JObject(("type" :> JString("model"))),
                           JObject(("id" :> JString("claude-3-haiku-20240307"))) >>)) }

\* what h.httpClient.Do and the reading of the body would yield
UpstreamAnswers ==
    { [err |-> "connection refused", StatusCode |-> 0, readErr |-> "", parses |-> FALSE, doc |-> <<>>],
      [err |-> "", StatusCode |-> 401, readErr |-> "", parses |-> TRUE,
       doc |-> ("error" :> JString("OAuth authentication is currently not supported."))],
      [err |-> "", StatusCode |-> 200, readErr |-> "unexpected EOF", parses |-> FALSE, doc |-> <<>>],
      [err |-> "", StatusCode |-> 200, readErr |-> "", parses |-> FALSE, doc |-> <<>>] }
    \cup { [err |-> "", StatusCode |-> 200, readErr |-> "", parses |-> TRUE, doc |-> d] :
             d \in UpstreamDocs }

NoResponse == [err |-> "", StatusCode |-> 0, readErr |-> "", parses |-> FALSE, doc |-> <<>>]

(***************************************************************************)
(* The static listing: getOAuthModels                                      *)
(***************************************************************************)
\* the "id" of each entry of the literal, in its order
OAuthModelIds ==
    << "claude-opus-4-20250514",
       "claude-sonnet-4-20250514",
       "claude-3-7-sonnet-20250219",
       "claude-3-5-sonnet-20241022",
       "claude-3-5-sonnet-20240620",
       "claude-3-5-haiku-20241022",
       "claude-3-opus-20240229",
       "claude-3-sonnet-20240229",
       "claude-3-haiku-20240307" >>

\* the "created" of each entry: the release date written in the literal
OAuthModelCreated ==
    << 1747353600, 1747353600, 1740009600, 1729555200, 1718841600,
       1729555200, 1709251200, 1709251200, 1709769600 >>

\* the one element of an entry's "permission"; t is what time.Now().Unix()
\* returned when the element was built
ModelPermission(id, t) ==
    [ allow_create_engine  |-> FALSE,
      allow_fine_tuning    |-> FALSE,
      allow_logprobs       |-> FALSE,
      allow_sampling       |-> TRUE,
      allow_search_indices |-> FALSE,
      allow_view           |-> TRUE,
      created              |-> t,
      group                |-> nil,
      id                   |-> "modelperm-" \o id,
      is_blocking          |-> FALSE,
      object               |-> "model_permission",
      organization         |-> "*" ]

\* the i-th entry of the literal, its permission built at clock reading t
OAuthModel_createdNow(i, t) ==
    [ id         |-> OAuthModelIds[i],
      object     |-> "model",
      created    |-> t,
      owned_by   |-> "anthropic",
      permission |-> << ModelPermission(OAuthModelIds[i], t) >> ]

OAuthModel(i, t) ==
    [ id         |-> OAuthModelIds[i],
      object     |-> "model",
      created    |-> OAuthModelCreated[i],
      owned_by   |-> "anthropic",
      permission |-> << ModelPermission(OAuthModelIds[i], t) >> ]

\* `models` before getOAuthModels is called
NoModels == [object |-> "", data |-> <<>>]

\* the literal evaluates its entries in order, each reading the clock
getOAuthModels(partial, t) ==
    [object |-> "list", data |-> Append(partial.data, OAuthModel(Len(partial.data) + 1, t))]

(***************************************************************************)
(* setCORSHeadersStandalone                                                *)
(***************************************************************************)
setCORSHeadersStandalone_star(rw, rq) ==
    LET h1 == HeaderSet(rw.header, "Access-Control-Allow-Origin", "*")
        h2 == HeaderSet(h1, "Access-Control-Allow-Methods", "GET, POST, PUT, DELETE, OPTIONS")
        h3 == HeaderSet(h2, "Access-Control-Allow-Headers", "Content-Type, Authorization, X-Requested-With")
        h4 == HeaderSet(h3, "Access-Control-Allow-Credentials", "true")
        h5 == HeaderSet(h4, "Access-Control-Max-Age", "3600")
    IN  [rw EXCEPT !.header = h5]

setCORSHeadersStandalone(rw, rq) ==
    LET got    == HeaderGet(rq.Header, "Origin")
        origin == IF got = "" THEN "*" ELSE got
        h1 == HeaderSet(rw.header, "Access-Control-Allow-Origin", origin)
        h2 == HeaderSet(h1, "Access-Control-Allow-Methods", "GET, POST, PUT, DELETE, OPTIONS")
        h3 == HeaderSet(h2, "Access-Control-Allow-Headers", "Content-Type, Authorization, X-Requested-With")
        h4 == HeaderSet(h3, "Access-Control-Allow-Credentials", "true")
        h5 == HeaderSet(h4, "Access-Control-Max-Age", "3600")
    IN  [rw EXCEPT !.header = h5]

(***************************************************************************)
(* The clock                                                               *)
(***************************************************************************)
Tick ==
    /\ now < MaxTime
    /\ now' = now + 1
    /\ UNCHANGED <<envVars, callVars, serveVars, fetchVars, confirmVars, scanVars>>

(***************************************************************************)
(* ModelsHandler.ServeHTTP                                                 *)
(***************************************************************************)
ServeUnchanged == UNCHANGED <<clockVars, envVars, fetchVars, confirmVars, scanVars>>

\* the server hands a request and a fresh ResponseWriter to ServeHTTP
ServeHTTP ==
    /\ pc = "idle"
    /\ \E rq \in Requests : r' = rq
    /\ w' = NewResponse
    /\ models' = NoModels
    /\ pc' = "L30"
    /\ UNCHANGED <<prevModels, callVars>>
    /\ ServeUnchanged

\* line 30: if r.Method == "OPTIONS"
ServeCheckMethod ==
    /\ pc = "L30"
    /\ pc' = IF r.Method = "OPTIONS" THEN "L31" ELSE "L36"
    /\ UNCHANGED <<r, w, models, prevModels, callVars>>
    /\ ServeUnchanged

\* line 31: setCORSHeadersStandalone(w, r)
ServeOptionsCORS ==
    /\ pc = "L31"
    /\ w' = setCORSHeadersStandalone(w, r)
    /\ pc' = "L32"
    /\ UNCHANGED <<r, models, prevModels, callVars>>
    /\ ServeUnchanged

\* lines 32-33: w.WriteHeader(http.StatusNoContent); return
ServeOptionsReturn_fallThrough ==
    /\ pc = "L32"
    /\ w' = WriteHeader(w, 204)
    /\ pc' = "L36"
    /\ UNCHANGED <<r, models, prevModels, callVars>>
    /\ ServeUnchanged

ServeOptionsReturn ==
    /\ pc = "L32"
    /\ w' = WriteHeader(w, 204)
    /\ pc' = "return"
    /\ UNCHANGED <<r, models, prevModels, callVars>>
    /\ ServeUnchanged

\* line 36: setCORSHeadersStandalone(w, r)
ServeCORS ==
    /\ pc = "L36"
    /\ w' = setCORSHeadersStandalone(w, r)
    /\ pc' = "L40"
    /\ UNCHANGED <<r, models, prevModels, callVars>>
    /\ ServeUnchanged

\* line 40: models := h.getOAuthModels(), one entry of the literal per step
ServeGetModels_fetchFirst ==
    /\ pc = "L40"
    /\ tokenCalls' = IF models = NoModels THEN Append(tokenCalls, tokenEnv) ELSE tokenCalls
    /\ models' = getOAuthModels(models, now)
    /\ pc' = IF Len(models'.data) = Len(OAuthModelIds) THEN "L42" ELSE "L40"
    /\ UNCHANGED <<r, w, prevModels, upstreamReqs>>
    /\ ServeUnchanged

ServeGetModels ==
    /\ pc = "L40"
    /\ models' = getOAuthModels(models, now)
    /\ pc' = IF Len(models'.data) = Len(OAuthModelIds) THEN "L42" ELSE "L40"
    /\ UNCHANGED <<r, w, prevModels, callVars>>
    /\ ServeUnchanged

\* line 42: w.Header().Set("Content-Type", "application/json")
ServeSetContentType_late ==
    /\ pc = "L42"
    /\ pc' = "L43"
    /\ UNCHANGED <<r, w, models, prevModels, callVars>>
    /\ ServeUnchanged

ServeSetContentType ==
    /\ pc = "L42"
    /\ w' = [w EXCEPT !.header = HeaderSet(@, "Content-Type", "application/json")]
    /\ pc' = "L43"
    /\ UNCHANGED <<r, models, prevModels, callVars>>
    /\ ServeUnchanged

\* line 43: json.NewEncoder(w).Encode(models)
ServeEncode ==
    /\ pc = "L43"
    /\ w' = Encode(w, models)
    /\ pc' = "return"
    /\ UNCHANGED <<r, models, prevModels, callVars>>
    /\ ServeUnchanged

\* line 44: ServeHTTP returns; the handler is ready for the next request
ServeReturn ==
    /\ pc = "return"
    /\ prevModels' = IF models = NoModels THEN prevModels ELSE models
    /\ pc' = "idle"
    /\ UNCHANGED <<r, w, models, callVars>>
    /\ ServeUnchanged

(***************************************************************************)
(* ModelsHandler.fetchModelsFromAnthropic                                  *)
(***************************************************************************)
\* convertAnthropicModelsToOpenAI: every item of "data" that is a map with a
\* string "id" becomes an OpenAI model, created at clock reading t
RECURSIVE convertItems(_, _)
convertItems(data, t) ==
    IF data = <<>> THEN <<>>
    ELSE LET item == Head(data)
             rest == convertItems(Tail(data), t)
         IN  IF /\ IsJObject(item)
                /\ "id" \in DOMAIN item.map
                /\ IsJString(item.map["id"])
             THEN << [ id         |-> item.map["id"].string,
                       object     |-> "model",
                       created    |-> t,
                       owned_by   |-> "anthropic",
                       permission |-> << ModelPermission(item.map["id"].string, t) >> ] >> \o rest
             ELSE rest

convertAnthropicModelsToOpenAI(anthropicResponse, t) ==
    IF "data" \in DOMAIN anthropicResponse /\ IsJArray(anthropicResponse["data"])
    THEN [object |-> "list", data |-> convertItems(anthropicResponse["data"].slice, t)]
    ELSE [object |-> "list", data |-> <<>>]

NoFetched == [value |-> nil, err |-> "not returned"]
Failed(msg) == [value |-> nil, err |-> msg]

FetchUnchanged == UNCHANGED <<clockVars, envVars, serveVars, confirmVars, scanVars>>

\* a caller enters fetchModelsFromAnthropic
FetchCall ==
    /\ fpc = "idle"
    /\ fpc' = "L49"
    /\ accessToken' = ""
    /\ req' = NoRequest
    /\ resp' = NoResponse
    /\ fetched' = NoFetched
    /\ tokenCalls' = <<>>
    /\ upstreamReqs' = <<>>
    /\ FetchUnchanged

\* lines 49-52: accessToken, err := h.tokenProvider.GetAccessToken()
FetchGetAccessToken_ignoreErr ==
    /\ fpc = "L49"
    /\ tokenCalls' = Append(tokenCalls, tokenEnv)
    /\ accessToken' = tokenEnv.token
    /\ fpc' = "L55"
    /\ UNCHANGED <<req, resp, fetched, upstreamReqs>>
    /\ FetchUnchanged

FetchGetAccessToken ==
    /\ fpc = "L49"
    /\ tokenCalls' = Append(tokenCalls, tokenEnv)
    /\ IF tokenEnv.err # ""
       THEN /\ fetched' = Failed("failed to get access token: " \o tokenEnv.err)
            /\ fpc' = "return"
            /\ UNCHANGED accessToken
       ELSE /\ accessToken' = tokenEnv.token
            /\ fpc' = "L55"
            /\ UNCHANGED fetched
    /\ UNCHANGED <<req, resp, upstreamReqs>>
    /\ FetchUnchanged

\* lines 55-64: http.NewRequest and the four req.Header.Set
FetchNewRequest ==
    /\ fpc = "L55"
    /\ LET url == upstreamURL \o "/v1/models"
           h1  == HeaderSet(EmptyHeader, "Authorization", "Bearer " \o accessToken)
           h2  == HeaderSet(h1, "anthropic-version", "2023-06-01")
           h3  == HeaderSet(h2, "anthropic-beta", "oauth-2025-04-20")
           h4  == HeaderSet(h3, "Content-Type", "application/json")
       IN  IF ~URLParses(url)
           THEN /\ fetched' = Failed("failed to create request: parse error")
                /\ fpc' = "return"
                /\ UNCHANGED req
           ELSE /\ req' = [Method |-> "GET", URL |-> url, Header |-> h4]
                /\ fpc' = "L67"
                /\ UNCHANGED fetched
    /\ UNCHANGED <<accessToken, resp, callVars>>
    /\ FetchUnchanged

\* lines 67-71: resp, err := h.httpClient.Do(req)
FetchDo ==
    /\ fpc = "L67"
    /\ upstreamReqs' = Append(upstreamReqs, req)
    /\ IF upstreamEnv.err # ""
       THEN /\ fetched' = Failed("failed to make request: " \o upstreamEnv.err)
            /\ fpc' = "return"
            /\ UNCHANGED resp
       ELSE /\ resp' = upstreamEnv
            /\ fpc' = "L73"
            /\ UNCHANGED fetched
    /\ UNCHANGED <<accessToken, req, tokenCalls>>
    /\ FetchUnchanged

\* lines 73-90: the status check, io.ReadAll, json.Unmarshal, the conversion
FetchReadResponse ==
    /\ fpc = "L73"
    /\ fetched' =
         IF resp.StatusCode # 200
           THEN Failed("API returned status " \o ToString(resp.StatusCode))
         ELSE IF resp.readErr # ""
           THEN Failed("failed to read response: " \o resp.readErr)
         ELSE IF ~resp.parses
           THEN Failed("failed to parse response: invalid character")
         ELSE [value |-> convertAnthropicModelsToOpenAI(resp.doc, now), err |-> ""]
    /\ fpc' = "return"
    /\ UNCHANGED <<accessToken, req, resp, callVars>>
    /\ FetchUnchanged

\* fetchModelsFromAnthropic has returned to its caller
FetchReturn ==
    /\ fpc = "return"
    /\ fpc' = "idle"
    /\ UNCHANGED <<accessToken, req, resp, fetched, callVars>>
    /\ FetchUnchanged

(***************************************************************************)
(* ConfirmModel and ConfirmDefaultModel                                    *)
(***************************************************************************)
Questions == {"Overwrite the stored token?", "Log out?"}

\* tea.Msg: a key press (msg.String() is `key`) or any other message
KeyMsg(k) == [type |-> "tea.KeyMsg", key |-> k]
WindowSizeMsg == [type |-> "tea.WindowSizeMsg", key |-> ""]
NoMsg == [type |-> "", key |-> ""]
Keys == {"y", "Y", "n", "N", "enter", "ctrl+c", "esc", "q", " "}
Msgs == {KeyMsg(k) : k \in Keys} \cup {WindowSizeMsg}

\* tea.Cmd: tea.Quit or nil
Quit == "tea.Quit"
NoCmd == "nil"

\* NewConfirm(question)
NewConfirm(question) ==
    [question |-> question, answer |-> FALSE, answered |-> FALSE]

\* the model ConfirmWithDefault builds (lines 91-105)
NewConfirmDefault(question, defaultYes) ==
    [ ConfirmModel |->
        [ question |-> question \o " " \o (IF defaultYes THEN "(Y/n)" ELSE "(y/N)"),
          answer   |-> defaultYes,
          answered |-> FALSE ],
      defaultYes |-> defaultYes ]

IsDefaultModel(mo) == "defaultYes" \in DOMAIN mo

\* ConfirmModel.Update: the model and the command it returns
ConfirmModelUpdate_enterAnswers(mo, msg) ==
    IF msg.type = "tea.KeyMsg" /\ msg.key \in {"y", "Y", "enter"}
      THEN [model |-> [mo EXCEPT !.answer = TRUE, !.answered = TRUE], cmd |-> Quit]
    ELSE IF msg.type = "tea.KeyMsg" /\ msg.key \in {"n", "N", "ctrl+c", "esc"}
      THEN [model |-> [mo EXCEPT !.answer = FALSE, !.answered = TRUE], cmd |-> Quit]
    ELSE [model |-> mo, cmd |-> NoCmd]

ConfirmModelUpdate(mo, msg) ==
    IF msg.type = "tea.KeyMsg" /\ msg.key \in {"y", "Y"}
      THEN [model |-> [mo EXCEPT !.answer = TRUE, !.answered = TRUE], cmd |-> Quit]
    ELSE IF msg.type = "tea.KeyMsg" /\ msg.key \in {"n", "N"}
      THEN [model |-> [mo EXCEPT !.answer = FALSE, !.answered = TRUE], cmd |-> Quit]
    ELSE IF msg.type = "tea.KeyMsg" /\ msg.key \in {"ctrl+c", "esc"}
      THEN [model |-> [mo EXCEPT !.answer = FALSE, !.answered = TRUE], cmd |-> Quit]
    ELSE [model |-> mo, cmd |-> NoCmd]

\* ConfirmDefaultModel.Update
ConfirmDefaultModelUpdate_escIsDefault(mo, msg) ==
    IF msg.type = "tea.KeyMsg" /\ msg.key \in {"y", "Y"}
      THEN [model |-> [mo EXCEPT !.ConfirmModel.answer = TRUE,
                                 !.ConfirmModel.answered = TRUE], cmd |-> Quit]
    ELSE IF msg.type = "tea.KeyMsg" /\ msg.key \in {"n", "N"}
      THEN [model |-> [mo EXCEPT !.ConfirmModel.answer = FALSE,
                                 !.ConfirmModel.answered = TRUE], cmd |-> Quit]
    ELSE IF msg.type = "tea.KeyMsg" /\ msg.key \in {"enter", "ctrl+c", "esc"}
      THEN [model |-> [mo EXCEPT !.ConfirmModel.answer = mo.defaultYes,
                                 !.ConfirmModel.answered = TRUE], cmd |-> Quit]
    ELSE [model |-> mo, cmd |-> NoCmd]

ConfirmDefaultModelUpdate(mo, msg) ==
    IF msg.type = "tea.KeyMsg" /\ msg.key \in {"y", "Y"}
      THEN [model |-> [mo EXCEPT !.ConfirmModel.answer = TRUE,
                                 !.ConfirmModel.answered = TRUE], cmd |-> Quit]
    ELSE IF msg.type = "tea.KeyMsg" /\ msg.key \in {"n", "N"}
      THEN [model |-> [mo EXCEPT !.ConfirmModel.answer = FALSE,
                                 !.ConfirmModel.answered = TRUE], cmd |-> Quit]
    ELSE IF msg.type = "tea.KeyMsg" /\ msg.key = "enter"
      THEN [model |-> [mo EXCEPT !.ConfirmModel.answer = mo.defaultYes,
                                 !.ConfirmModel.answered = TRUE], cmd |-> Quit]
    ELSE IF msg.type = "tea.KeyMsg" /\ msg.key \in {"ctrl+c", "esc"}
      THEN [model |-> [mo EXCEPT !.ConfirmModel.answer = FALSE,
                                 !.ConfirmModel.answered = TRUE], cmd |-> Quit]
    ELSE [model |-> mo, cmd |-> NoCmd]

(***************************************************************************)
(* Confirm and ConfirmWithDefault on a terminal: the model under           *)
(* tea.Program.Run.  The program hands every message to Update; a returned *)
(* tea.Quit ends the loop once its quit message is taken, and messages     *)
(* already queued may reach Update before that.                            *)
(***************************************************************************)
NoAnswer == [returned |-> FALSE, value |-> FALSE]
Returned(b) == [returned |-> TRUE, value |-> b]

ConfirmUnchanged == UNCHANGED <<clockVars, envVars, callVars, serveVars, fetchVars, scanVars>>

\* p.Run() of Confirm delivers a message to ConfirmModel.Update
ConfirmUpdate ==
    /\ phase \in {"running", "quitting"}
    /\ ~IsDefaultModel(m)
    /\ \E msg \in Msgs :
         LET res == ConfirmModelUpdate(m, msg)
         IN  /\ m' = res.model
             /\ lastCmd' = res.cmd
             /\ lastMsg' = msg
             /\ phase' = IF res.cmd = Quit THEN "quitting" ELSE phase
    /\ before' = m
    /\ UNCHANGED answer
    /\ ConfirmUnchanged

\* p.Run() of ConfirmWithDefault delivers a message to ConfirmDefaultModel.Update
ConfirmDefaultUpdate ==
    /\ phase \in {"running", "quitting"}
    /\ IsDefaultModel(m)
    /\ \E msg \in Msgs :
         LET res == ConfirmDefaultModelUpdate(m, msg)
         IN  /\ m' = res.model
             /\ lastCmd' = res.cmd
             /\ lastMsg' = msg
             /\ phase' = IF res.cmd = Quit THEN "quitting" ELSE phase
    /\ before' = m
    /\ UNCHANGED answer
    /\ ConfirmUnchanged

\* lines 76-81 and 109-114: Run returns the final model, its answer is returned
ConfirmRunReturns ==
    /\ phase = "quitting"
    /\ phase' = "done"
    /\ answer' = Returned(IF IsDefaultModel(m) THEN m.ConfirmModel.answer ELSE m.answer)
    /\ UNCHANGED <<m, before, lastMsg, lastCmd>>
    /\ ConfirmUnchanged

\* lines 77-79 and 110-112: Run fails, false is returned
ConfirmRunFails ==
    /\ phase \in {"running", "quitting"}
    /\ phase' = "done"
    /\ answer' = Returned(FALSE)
    /\ UNCHANGED <<m, before, lastMsg, lastCmd>>
    /\ ConfirmUnchanged

(***************************************************************************)
(* Confirm and ConfirmWithDefault without a terminal                       *)
(***************************************************************************)
\* the longest input tried on standard input
MaxInput == 3

\* the characters tried; "\n" ends a line, the end of the sequence is EOF
ScanAlphabet == {"y", "Y", "e", "E", "s", "S", "n", "N", "o", "O", "x", " ", "\r", "\n"}

RECURSIVE SeqsUpTo(_, _)
SeqsUpTo(S, n) ==
    IF n = 0 THEN {<<>>}
    ELSE LET shorter == SeqsUpTo(S, n - 1)
         IN  shorter \cup {Append(q, c) : q \in {x \in shorter : Len(x) = n - 1}, c \in S}

Inputs == SeqsUpTo(ScanAlphabet, MaxInput)

\* fmt's isSpace, on the characters tried
isSpace(c) == c \in {" ", "\t", "\r", "\n"}

\* ss.SkipSpace with nlIsSpace = false: what is left, and the error raised
RECURSIVE SkipSpace(_)
SkipSpace(in) ==
    IF in = <<>> THEN [rest |-> in, err |-> ""]
    ELSE IF Head(in) = "\r" /\ Len(in) > 1 /\ in[2] = "\n" THEN SkipSpace(Tail(in))
    ELSE IF Head(in) = "\n" THEN [rest |-> Tail(in), err |-> "unexpected newline"]
    ELSE IF ~isSpace(Head(in)) THEN [rest |-> in, err |-> ""]
    ELSE SkipSpace(Tail(in))

\* ss.token(true, notSpace), after the spaces: the run of non-space characters
RECURSIVE token(_)
token(in) ==
    IF in = <<>> \/ isSpace(Head(in)) THEN [tok |-> <<>>, rest |-> in]
    ELSE LET t == token(Tail(in))
         IN  [tok |-> <<Head(in)>> \o t.tok, rest |-> t.rest]

\* doScan's check after the last operand (nlIsEnd): spaces, then newline or EOF
RECURSIVE expectNewline(_)
expectNewline(in) ==
    IF in = <<>> THEN [rest |-> in, err |-> ""]
    ELSE IF Head(in) = "\n" THEN [rest |-> Tail(in), err |-> ""]
    ELSE IF ~isSpace(Head(in)) THEN [rest |-> Tail(in), err |-> "expected newline"]
    ELSE expectNewline(Tail(in))

\* fmt.Scanln(&response) with response == "" before the call
Scanln(in) ==
    LET sk == SkipSpace(in)
    IN  IF sk.err # "" THEN [response |-> <<>>, err |-> sk.err, rest |-> sk.rest]
        ELSE IF sk.rest = <<>>
          THEN [response |-> <<>>, err |-> "EOF", rest |-> <<>>]
        ELSE LET t  == token(sk.rest)
                 nl == expectNewline(t.rest)
             IN  [response |-> t.tok, err |-> nl.err, rest |-> nl.rest]

YesResponses == { <<"y">>, <<"Y">>, <<"y", "e", "s">>, <<"Y", "e", "s">>, <<"Y", "E", "S">> }
NoResponses  == { <<"n">>, <<"N">>, <<"n", "o">>, <<"N", "o">>, <<"N", "O">> }

\* confirmNonInteractive: the value returned, reading standard input `in`
confirmNonInteractive_errIsNo(in, defaultYes) ==
    LET sc == Scanln(in)
    IN  IF sc.err # "" THEN FALSE
        ELSE IF sc.response \in YesResponses THEN TRUE
        ELSE IF sc.response \in NoResponses THEN FALSE
        ELSE defaultYes

confirmNonInteractive(in, defaultYes) ==
    LET sc == Scanln(in)
    IN  IF sc.err # "" THEN defaultYes
        ELSE IF sc.response \in YesResponses THEN TRUE
        ELSE IF sc.response \in NoResponses THEN FALSE
        ELSE defaultYes

NoCall == [fn |-> "", question |-> "", defaultYes |-> FALSE, input |-> <<>>]

ScanUnchanged == UNCHANGED <<clockVars, envVars, callVars, serveVars, fetchVars, confirmVars>>

\* lines 67-71: Confirm(question) when utils.IsInteractive() is false
Confirm ==
    /\ \E q \in Questions :
         call' = [fn |-> "Confirm", question |-> q, defaultYes |-> FALSE, input |-> stdin]
    /\ ret' = Returned(confirmNonInteractive(stdin, FALSE))
    /\ stdin' = Scanln(stdin).rest
    /\ ScanUnchanged

\* lines 85-89: ConfirmWithDefault(question, defaultYes), the same way
ConfirmWithDefault ==
    /\ \E q \in Questions, d \in BOOLEAN :
         /\ call' = [fn |-> "ConfirmWithDefault", question |-> q, defaultYes |-> d, input |-> stdin]
         /\ ret' = Returned(confirmNonInteractive(stdin, d))
    /\ stdin' = Scanln(stdin).rest
    /\ ScanUnchanged

(***************************************************************************)
(* Initial states and specifications                                       *)
(***************************************************************************)
\* the handler as NewModelsHandler leaves it, with a provider and an upstream
\* of any behaviour behind it
InitHandler ==
    /\ tokenEnv \in TokenResults
    /\ upstreamEnv \in UpstreamAnswers
    /\ upstreamURL \in UpstreamURLs
    /\ tokenCalls = <<>>
    /\ upstreamReqs = <<>>

\* the same, with the provider and the upstream either working or failing
InitHandlerServing ==
    /\ InitHandler
    /\ tokenEnv.token \in {"sk-ant-oat01-A", ""}
    /\ upstreamEnv.StatusCode = 401 \/ upstreamEnv.doc = ("data" :> JArray(<<>>))
    /\ URLParses(upstreamURL \o "/v1/models")

InitServe ==
    /\ pc = "idle"
    /\ r = NoRequest
    /\ w = NewResponse
    /\ models = NoModels
    /\ prevModels = NoModels

InitFetch ==
    /\ fpc = "idle"
    /\ accessToken = ""
    /\ req = NoRequest
    /\ resp = NoResponse
    /\ fetched = NoFetched

\* the prompt as Confirm (line 73) or ConfirmWithDefault (lines 98-105) hands
\* it to tea.NewProgram
InitPrompt ==
    /\ phase = "running"
    /\ m \in {NewConfirm(q) : q \in Questions}
           \cup {NewConfirmDefault(q, d) : q \in Questions, d \in BOOLEAN}
    /\ before = m
    /\ lastMsg = NoMsg
    /\ lastCmd = NoCmd
    /\ answer = NoAnswer

\* no prompt on a terminal
InitNoPrompt ==
    /\ phase = "done"
    /\ m = NewConfirm("")
    /\ before = m
    /\ lastMsg = NoMsg
    /\ lastCmd = NoCmd
    /\ answer = NoAnswer

\* no terminal, and some input waiting
InitScan ==
    /\ stdin \in Inputs
    /\ call = NoCall
    /\ ret = NoAnswer

InitNoScan ==
    /\ stdin = <<>>
    /\ call = NoCall
    /\ ret = NoAnswer

\* ---- ModelsHandler.ServeHTTP
ServeInit ==
    now = 0 /\ InitHandlerServing /\ InitServe /\ InitFetch /\ InitNoPrompt /\ InitNoScan

ServeNext ==
    \/ Tick
    \/ ServeHTTP
    \/ ServeCheckMethod
    \/ ServeOptionsCORS
    \/ ServeOptionsReturn
    \/ ServeCORS
    \/ ServeGetModels
    \/ ServeSetContentType
    \/ ServeEncode
    \/ ServeReturn

SpecServe == ServeInit /\ [][ServeNext]_vars

\* ---- ModelsHandler.fetchModelsFromAnthropic
FetchInit ==
    now = 0 /\ InitHandler /\ InitServe /\ InitFetch /\ InitNoPrompt /\ InitNoScan

FetchNext ==
    \/ Tick
    \/ FetchCall
    \/ FetchGetAccessToken
    \/ FetchNewRequest
    \/ FetchDo
    \/ FetchReadResponse
    \/ FetchReturn

SpecFetch == FetchInit /\ [][FetchNext]_vars

\* ---- the prompts on a terminal
ConfirmInit ==
    /\ now = 0
    /\ tokenEnv = [token |-> "", err |-> ""]
    /\ upstreamEnv = NoResponse
    /\ upstreamURL = "https://api.anthropic.com"
    /\ tokenCalls = <<>>
    /\ upstreamReqs = <<>>
    /\ InitServe /\ InitFetch /\ InitPrompt /\ InitNoScan

ConfirmNext ==
    \/ ConfirmUpdate
    \/ ConfirmDefaultUpdate
    \/ ConfirmRunReturns
    \/ ConfirmRunFails

SpecConfirm == ConfirmInit /\ [][ConfirmNext]_vars

\* ---- the prompts without a terminal
ScanInit ==
    /\ now = 0
    /\ tokenEnv = [token |-> "", err |-> ""]
    /\ upstreamEnv = NoResponse
    /\ upstreamURL = "https://api.anthropic.com"
    /\ tokenCalls = <<>>
    /\ upstreamReqs = <<>>
    /\ InitServe /\ InitFetch /\ InitNoPrompt /\ InitScan

ScanNext ==
    \/ Confirm
    \/ ConfirmWithDefault

SpecScan == ScanInit /\ [][ScanNext]_vars

(***************************************************************************)
(* Properties of ModelsHandler.ServeHTTP (checked under SpecServe)         *)
(***************************************************************************)
\* ServeHTTP has run to its return on the request r
Served == pc \in {"return", "idle"} /\ r # NoRequest

\* the header the request carries under Origin, read off the map itself
RequestOrigin ==
    IF "Origin" \in DOMAIN r.Header /\ r.Header["Origin"] # <<"">>
    THEN r.Header["Origin"]
    ELSE <<"*">>

\* C1: a request whose method is not OPTIONS is answered with the static
\* listing (object "list", the nine fixed models with their release dates),
\* whatever the token provider and the upstream would do, and ServeHTTP never
\* calls GetAccessToken and never sends a request upstream.
C1_StaticListingNoUpstream ==
    /\ tokenCalls = <<>>
    /\ upstreamReqs = <<>>
    /\ (Served /\ r.Method # "OPTIONS") =>
         /\ Len(w.body) = 1
         /\ w.body[1].json.object = "list"
         /\ Len(w.body[1].json.data) = 9
         /\ \A i \in 1..9 :
              LET e == w.body[1].json.data[i]
              IN  /\ e.id = OAuthModelIds[i]
                  /\ e.object = "model"
                  /\ e.owned_by = "anthropic"
                  /\ e.created = OAuthModelCreated[i]
                  /\ Len(e.permission) = 1
                  /\ e.permission[1].id = "modelperm-" \o OAuthModelIds[i]

\* a POST was answered with a listing while the token provider would fail
C1_Witness ==
    /\ Served
    /\ r.Method = "POST"
    /\ tokenEnv.err # ""
    /\ upstreamEnv.StatusCode = 401
    /\ Len(w.body) = 1

CORSKeys ==
    { "Access-Control-Allow-Origin", "Access-Control-Allow-Methods",
      "Access-Control-Allow-Headers", "Access-Control-Allow-Credentials",
      "Access-Control-Max-Age" }

\* C2: an OPTIONS request is answered with status 204 and the CORS headers,
\* no body is written, and the listing is never built.
C2_OptionsNoContent ==
    (r.Method = "OPTIONS") =>
        /\ models = NoModels
        /\ w.body = <<>>
        /\ Served => /\ w.wroteHeader
                     /\ w.status = 204
                     /\ CORSKeys \subseteq DOMAIN w.sent

\* an OPTIONS request with an Origin has been answered
C2_Witness ==
    /\ Served
    /\ r.Method = "OPTIONS"
    /\ HeaderGet(r.Header, "Origin") = "https://app.example"
    /\ w.status = 204

\* C3: every response carries Access-Control-Allow-Headers with
\* anthropic-version and anthropic-beta in it.
C3_AllowHeadersAnthropic ==
    w.wroteHeader =>
        HeaderGet(w.sent, "Access-Control-Allow-Headers") =
            "Content-Type, Authorization, X-Requested-With, anthropic-version, anthropic-beta"

\* C4: the response's Access-Control-Allow-Origin is the request's Origin
\* when that is present and not empty, and "*" otherwise, for every method.
C4_AllowOriginEchoes ==
    w.wroteHeader =>
        /\ "Access-Control-Allow-Origin" \in DOMAIN w.sent
        /\ w.sent["Access-Control-Allow-Origin"] = RequestOrigin

\* a GET with an Origin got its response header
C4_Witness ==
    /\ w.wroteHeader
    /\ r.Method = "GET"
    /\ HeaderGet(r.Header, "Origin") = "http://localhost:3000"
    /\ w.sent["Access-Control-Allow-Origin"] = <<"http://localhost:3000">>

\* C5: whenever the status line or a body byte has been written, the headers
\* sent with it hold the CORS headers (Allow-Methods, Allow-Credentials,
\* Max-Age with their fixed values) and, unless the method is OPTIONS,
\* Content-Type application/json.
C5_HeadersBeforeWrite ==
    /\ w.body # <<>> => w.wroteHeader
    /\ w.wroteHeader =>
         /\ CORSKeys \subseteq DOMAIN w.sent
         /\ HeaderGet(w.sent, "Access-Control-Allow-Methods") = "GET, POST, PUT, DELETE, OPTIONS"
         /\ HeaderGet(w.sent, "Access-Control-Allow-Credentials") = "true"
         /\ HeaderGet(w.sent, "Access-Control-Max-Age") = "3600"
         /\ r.Method # "OPTIONS" => HeaderGet(w.sent, "Content-Type") = "application/json"
         /\ w.sent = w.header

\* a GET has had its status line and its body written
C5_Witness ==
    /\ w.wroteHeader
    /\ w.status = 200
    /\ r.Method = "GET"
    /\ w.body # <<>>

\* a listing with every permission[].created blanked
StripPermissionCreated(listing) ==
    [ listing EXCEPT !.data =
        [ i \in DOMAIN listing.data |->
            [ listing.data[i] EXCEPT !.permission =
                [ j \in DOMAIN listing.data[i].permission |->
                    [ listing.data[i].permission[j] EXCEPT !.created = 0 ] ] ] ] ]

\* the local `models` holds the whole listing
ListingBuilt == pc \in {"L42", "L43", "return"} /\ models # NoModels

\* C6: two listings built at different clock times are equal in everything
\* but permission[].created.
C6_ListingsDifferOnlyInPermissionCreated ==
    (ListingBuilt /\ prevModels # NoModels) =>
        StripPermissionCreated(models) = StripPermissionCreated(prevModels)

\* two listings were built whose permission[].created differ
C6_Witness ==
    /\ ListingBuilt
    /\ prevModels # NoModels
    /\ models.data[1].permission[1].created # prevModels.data[1].permission[1].created
    /\ models.data[9].permission[1].created # models.data[1].permission[1].created

(***************************************************************************)
(* Properties of fetchModelsFromAnthropic (checked under SpecFetch)        *)
(***************************************************************************)
\* C7: one call sends at most one upstream request, and only after its one
\* GetAccessToken returned without error; the request carries "Bearer " and
\* exactly the returned token, anthropic-version 2023-06-01 and anthropic-beta
\* oauth-2025-04-20. When GetAccessToken fails no request is sent and an
\* error is returned instead of a listing.
C7_UpstreamOnlyWithToken ==
    /\ Len(tokenCalls) <= 1
    /\ Len(upstreamReqs) <= 1
    /\ upstreamReqs # <<>> =>
         /\ Len(tokenCalls) = 1
         /\ tokenCalls[1].err = ""
         /\ upstreamReqs[1].Header["Authorization"] = << "Bearer " \o tokenCalls[1].token >>
         /\ upstreamReqs[1].Header["anthropic-version"] = << "2023-06-01" >>
         /\ upstreamReqs[1].Header["anthropic-beta"] = << "oauth-2025-04-20" >>
    /\ (tokenCalls # <<>> /\ tokenCalls[1].err # "") =>
         /\ upstreamReqs = <<>>
         /\ fpc \in {"return", "idle"}
         /\ fetched.err # ""
         /\ fetched.value = nil

\* a call got a token, sent its request and returned a converted listing
C7_Witness ==
    /\ fpc = "return"
    /\ tokenCalls = << [token |-> "sk-ant-oat01-B", err |-> ""] >>
    /\ Len(upstreamReqs) = 1
    /\ fetched.err = ""
    /\ Len(fetched.value.data) = 2

(***************************************************************************)
(* Properties of the prompts on a terminal (checked under SpecConfirm)     *)
(***************************************************************************)
AnsweringKeys == {"y", "Y", "n", "N", "ctrl+c", "esc"}
IsKey(msg, keys) == msg.type = "tea.KeyMsg" /\ msg.key \in keys

\* C8: ConfirmModel.Update answers true on y or Y and false on n, N, ctrl+c
\* or esc, each time setting answered and returning Quit; on any other key
\* (enter too) and on any other message it returns the model as it was and
\* no command. Quit is returned exactly when the Update sets answered.
C8_ConfirmUpdate ==
    (~IsDefaultModel(m) /\ lastMsg # NoMsg) =>
        /\ IsKey(lastMsg, {"y", "Y"}) => m.answer /\ m.answered /\ lastCmd = Quit
        /\ IsKey(lastMsg, {"n", "N", "ctrl+c", "esc"}) =>
               ~m.answer /\ m.answered /\ lastCmd = Quit
        /\ ~IsKey(lastMsg, AnsweringKeys) => m = before /\ lastCmd = NoCmd
        /\ m.question = before.question
        /\ lastCmd = Quit <=> IsKey(lastMsg, AnsweringKeys)

\* the prompt NewConfirm built took a Y
C8_Witness ==
    /\ ~IsDefaultModel(m)
    /\ before \in {NewConfirm(q) : q \in Questions}
    /\ lastMsg = KeyMsg("Y")
    /\ m.answer /\ m.answered
    /\ lastCmd = Quit

\* C9: ConfirmDefaultModel.Update answers defaultYes on enter, true on y or Y,
\* false on n or N, and false on ctrl+c or esc whatever the default; each of
\* them sets answered and returns Quit; no Update changes defaultYes or the
\* question.
C9_ConfirmDefaultUpdate ==
    (IsDefaultModel(m) /\ lastMsg # NoMsg) =>
        /\ IsKey(lastMsg, {"enter"}) => m.ConfirmModel.answer = before.defaultYes
        /\ IsKey(lastMsg, {"y", "Y"}) => m.ConfirmModel.answer = TRUE
        /\ IsKey(lastMsg, {"n", "N"}) => m.ConfirmModel.answer = FALSE
        /\ IsKey(lastMsg, {"ctrl+c", "esc"}) => m.ConfirmModel.answer = FALSE
        /\ IsKey(lastMsg, AnsweringKeys \cup {"enter"}) =>
               m.ConfirmModel.answered /\ lastCmd = Quit
        /\ m.defaultYes = before.defaultYes
        /\ m.ConfirmModel.question = before.ConfirmModel.question

\* a prompt whose default is yes took esc and answered no
C9_Witness ==
    /\ IsDefaultModel(m)
    /\ before = NewConfirmDefault("Log out?", TRUE)
    /\ lastMsg = KeyMsg("esc")
    /\ ~m.ConfirmModel.answer
    /\ m.ConfirmModel.answered
    /\ lastCmd = Quit

(***************************************************************************)
(* Properties of the prompts without a terminal (checked under SpecScan)   *)
(***************************************************************************)
\* the line a call found on standard input: what precedes the first newline
RECURSIVE Line(_)
Line(in) ==
    IF in = <<>> \/ Head(in) = "\n" THEN <<>> ELSE <<Head(in)>> \o Line(Tail(in))

Blanks == {" ", "\t", "\r"}

\* a line without the blanks at its ends
RECURSIVE TrimLeft(_)
TrimLeft(l) == IF l # <<>> /\ Head(l) \in Blanks THEN TrimLeft(Tail(l)) ELSE l
RECURSIVE TrimRight(_)
TrimRight(l) ==
    IF l # <<>> /\ l[Len(l)] \in Blanks THEN TrimRight(SubSeq(l, 1, Len(l) - 1)) ELSE l
Trim(l) == TrimRight(TrimLeft(l))

YesLines == { <<"y">>, <<"Y">>, <<"y", "e", "s">>, <<"Y", "e", "s">>, <<"Y", "E", "S">> }
NoLines  == { <<"n">>, <<"N">>, <<"n", "o">>, <<"N", "o">>, <<"N", "O">> }

====
